---- MODULE Spec2Model ----
(***************************************************************************)
(* Semantic search of the blog platform: blog/views.py semantic_search,   *)
(* blog/ai_utils.py generate_embedding and cosine_similarity, over the    *)
(* Post table of blog/models.py.                                          *)
(*                                                                         *)
(* Numbers.  The embedding vectors of the model have integer components   *)
(* and integral norms, so norm1 * norm2 is an exact integer and           *)
(* float(dot_product / (norm1 * norm2)) is the correctly rounded value of *)
(* a rational with a small denominator.  Two such rationals are equal     *)
(* (less) exactly when their doubles are equal (less), and the literal    *)
(* 0.3 is the double of 3/10.  A similarity is therefore kept as the      *)
(* rational <<numerator, denominator>> in lowest terms.                   *)
(***************************************************************************)
EXTENDS Integers, Sequences, FiniteSets, TLC

VARIABLES
    client,     \* ai_utils.client: TRUE when the OpenAI client was built
    posts,      \* the Post table, in order of creation (oldest first)
    next_id,    \* the primary key the next post gets
    likes,      \* the PostLike table, in order of creation
    bookmarks,  \* the Bookmark table, in order of creation
    comments,   \* the Comment table, in order of creation
    notifications,  \* the Notification table, in order of creation
    request,    \* the raw 'q' parameter of the request being answered
    provider,   \* what the embedding provider did when that request called it
    response,   \* the response to that request
    scored,     \* ids of the posts it handed to cosine_similarity, in order
    trace,      \* the calls of ai_utils that request made, in order
    edit,       \* the request on one post being answered: view, user, method
    call,       \* a function of ai_utils called on its own, with its arguments
    returned,   \* what that call returned
    saving,     \* the calls of Post.save under way, by request
    users,      \* the User table, in order of creation
    profiles,   \* the UserProfile table, in order of creation
    toggling    \* the toggle_like requests under way, by request

\* the database
\* the rows that refer to a post
relatedVars == <<likes, bookmarks, comments, notifications>>
storedVars == <<posts, next_id, relatedVars>>
\* the request being answered
requestVars == <<request, provider, response, scored, trace, edit>>
\* a function called on its own
pureVars == <<call, returned>>

\* the accounts
accountVars == <<users, profiles>>

vars == <<client, storedVars, requestVars, pureVars, saving, accountVars, toggling>>

(***************************************************************************)
(* Bounds of the exploration.                                              *)
(***************************************************************************)
\* posts created on top of the initial table
MaxCreated == 2
\* requests that call Post.save at the same time
MaxSaves == 2
\* toggle_like requests answered at the same time
MaxToggles == 2

(***************************************************************************)
(* Values.                                                                 *)
(***************************************************************************)
\* Post.embedding is a JSONField(null=True, default=list)
Null == [null |-> TRUE, vec |-> <<>>]
Vec(v) == [null |-> FALSE, vec |-> v]

\* vectors of the embedding model in use (dimension 4), all of integral norm
ModelVectors ==
    { <<1, 0, 0, 0>>, <<4, 3, 0, 0>>, <<3, 9, 3, 1>>, <<2, 4, 2, 1>>,
      <<0, 0, 0, 0>> }
\* a vector of an embedding model of another dimension
OtherModelVectors == { <<1, 0>> }
Vectors == ModelVectors \cup OtherModelVectors
\* the vectors the provider returns in the model
ProviderVectors == { <<1, 0, 0, 0>>, <<4, 3, 0, 0>> }

\* request texts: lists of characters
QueryTexts == { <<" ">>, <<"a", " ">> }

\* outcomes of one call of the provider: it raises, or it returns a vector
ProviderFails == [ok |-> FALSE, vec |-> <<>>]
ProviderOutcomes ==
    {ProviderFails} \cup {[ok |-> TRUE, vec |-> v] : v \in ProviderVectors}
\* the record of a call of the provider, and of no call
Called(out) == [called |-> TRUE, ok |-> out.ok, vec |-> out.vec]
NotCalled == [called |-> FALSE, ok |-> FALSE, vec |-> <<>>]

STATUS_CHOICES == {"draft", "published"}

\* a request on the post of primary key 'post', and no such request
Edit(view, user, post, method) ==
    [view |-> view, user |-> user, post |-> post, method |-> method]
NoEdit == Edit("", "", 0, "")

\* str(n) of a natural number, as a list of characters
DigitChars == <<"0", "1", "2", "3", "4", "5", "6", "7", "8", "9">>
RECURSIVE Digits(_)
Digits(n) ==
    IF n < 10 THEN <<DigitChars[n + 1]>>
    ELSE Append(Digits(n \div 10), DigitChars[(n % 10) + 1])

\* a table of Limit published posts that all carry the same vector: the
\* table the exploration starts from, besides the empty one
InitialPosts ==
    [i \in 1..20 |-> [id |-> i, author |-> "alice", slug |-> <<"p">> \o Digits(i),
                      status |-> "published", embedding |-> Vec(<<1, 0, 0, 0>>),
                      tags |-> {}, images |-> <<>>]]

(***************************************************************************)
(* Arithmetic.                                                             *)
(***************************************************************************)
Abs(n) == IF n < 0 THEN 0 - n ELSE n

RECURSIVE GCD(_, _)
GCD(a, b) == IF b = 0 THEN a ELSE GCD(b, a % b)

\* the double of n / d, d > 0, as a rational in lowest terms
Rat(n, d) ==
    LET g == GCD(Abs(n), d) IN <<n \div g, d \div g>>

Zero == <<0, 1>>

RatLess(a, b) == a[1] * b[2] < b[1] * a[2]
RatLeq(a, b) == a[1] * b[2] <= b[1] * a[2]

RECURSIVE Dot(_, _)
Dot(v, w) ==
    IF v = <<>> THEN 0 ELSE Head(v) * Head(w) + Dot(Tail(v), Tail(w))

\* np.linalg.norm on a vector of integral norm
RECURSIVE SqrtFrom(_, _)
SqrtFrom(n, s) == IF n * n >= s THEN n ELSE SqrtFrom(n + 1, s)

Norm(v) == SqrtFrom(0, Dot(v, v))

Min(a, b) == IF a < b THEN a ELSE b

Reverse(s) == [i \in 1..Len(s) |-> s[Len(s) + 1 - i]]

\* str.strip on a list of characters
RECURSIVE lstrip(_)
lstrip(s) == IF s # <<>> /\ Head(s) = " " THEN lstrip(Tail(s)) ELSE s

strip(s) == Reverse(lstrip(Reverse(lstrip(s))))

(***************************************************************************)
(* blog/ai_utils.py                                                        *)
(***************************************************************************)
NotConfigured == "OpenAI API key not configured. Set OPENAI_API_KEY in environment."

\* generate_embedding(text): raises ValueError without a client; an exception
\* of the provider call is caught and turned into []
generate_embedding(out) ==
    IF ~client
    THEN [raised |-> TRUE, error |-> NotConfigured, value |-> <<>>, call |-> NotCalled]
    ELSE IF ~out.ok
    THEN [raised |-> FALSE, error |-> "", value |-> <<>>, call |-> Called(out)]
    ELSE [raised |-> FALSE, error |-> "", value |-> out.vec, call |-> Called(out)]

\* variant: the products are summed over the common prefix of the vectors
RECURSIVE DotZip(_, _)
DotZip(v, w) ==
    IF v = <<>> \/ w = <<>> THEN 0
    ELSE Head(v) * Head(w) + DotZip(Tail(v), Tail(w))

cosine_similarity_zip(vec1, vec2) ==
    LET dot_product == DotZip(vec1, vec2)
        norm1 == Norm(vec1)
        norm2 == Norm(vec2)
    IN  IF norm1 = 0 \/ norm2 = 0 THEN Zero
        ELSE Rat(dot_product, norm1 * norm2)

\* the quotient 0.0 / 0.0 of numpy floats
NaN == <<0, 0>>

\* variant: the norms are not checked for zero
cosine_similarity_unguarded(vec1, vec2) ==
    IF Len(vec1) # Len(vec2) THEN Zero
    ELSE LET dot_product == Dot(vec1, vec2)
             norm1 == Norm(vec1)
             norm2 == Norm(vec2)
         IN  IF norm1 * norm2 = 0 THEN NaN
             ELSE Rat(dot_product, norm1 * norm2)

\* variant: the dot product is not divided by the norms
cosine_similarity_dot(vec1, vec2) ==
    IF Len(vec1) # Len(vec2) THEN Zero
    ELSE LET dot_product == Dot(vec1, vec2)
             norm1 == Norm(vec1)
             norm2 == Norm(vec2)
         IN  IF norm1 = 0 \/ norm2 = 0 THEN Zero
             ELSE Rat(dot_product, 1)

\* variant: the dot product is divided by norm1 * norm1
cosine_similarity_one_norm(vec1, vec2) ==
    IF Len(vec1) # Len(vec2) THEN Zero
    ELSE LET dot_product == Dot(vec1, vec2)
             norm1 == Norm(vec1)
             norm2 == Norm(vec2)
         IN  IF norm1 = 0 \/ norm2 = 0 THEN Zero
             ELSE Rat(dot_product, norm1 * norm1)

\* cosine_similarity(vec1, vec2): np.dot raises ValueError on vectors of
\* different length, and the except clause returns 0.0
cosine_similarity(vec1, vec2) ==
    IF Len(vec1) # Len(vec2) THEN Zero
    ELSE LET dot_product == Dot(vec1, vec2)
             norm1 == Norm(vec1)
             norm2 == Norm(vec2)
         IN  IF norm1 = 0 \/ norm2 = 0 THEN Zero
             ELSE Rat(dot_product, norm1 * norm2)

(***************************************************************************)
(* blog/views.py semantic_search                                           *)
(***************************************************************************)
\* the relevance threshold 0.3 and the size of the result page
Threshold == <<3, 10>>
Limit == 20

\* Post.objects.filter(status='published').exclude(embedding__isnull=True)
\*     .exclude(embedding=[]), in Meta.ordering = ['-created_at']
\* variant: the status is not filtered
WithEmbeddingOfAnyStatus(ps) ==
    SelectSeq(Reverse(ps),
              LAMBDA p : /\ ~p.embedding.null
                         /\ p.embedding.vec # <<>>)

PublishedWithEmbedding(ps) ==
    SelectSeq(Reverse(ps),
              LAMBDA p : /\ p.status = "published"
                         /\ ~p.embedding.null
                         /\ p.embedding.vec # <<>>)

\* if post.embedding and len(post.embedding) > 0
HasEmbedding(post) == ~post.embedding.null /\ Len(post.embedding.vec) > 0

\* variant: if similarity >= 0.3
RelevantInclusive(similarity) == RatLeq(Threshold, similarity)

\* if similarity > 0.3
Relevant(similarity) == RatLess(Threshold, similarity)

\* variant: every published post is scored
CandidatesUnfiltered(ps) ==
    SelectSeq(Reverse(ps), LAMBDA p : p.status = "published")

\* the posts the loop 'for post in posts' hands to cosine_similarity, in
\* order: the posts of the queryset that pass the check of the loop body
Candidates(ps) == SelectSeq(PublishedWithEmbedding(ps), HasEmbedding)

\* the list 'results' after the loop: one entry for each scored post whose
\* similarity passes the threshold, in the order of the loop
SimilarityScan(query_embedding, candidates) ==
    LET entries == [i \in 1..Len(candidates) |->
                      [post |-> candidates[i].id,
                       similarity |-> cosine_similarity(query_embedding,
                                                        candidates[i].embedding.vec)]]
    IN  SelectSeq(entries, LAMBDA r : Relevant(r.similarity))

\* variant: x goes ahead of the entries of equal key
InsertDescendingAheadOfTies(sorted, x) ==
    LET ahead == Cardinality({i \in 1..Len(sorted) :
                                RatLess(x.similarity, sorted[i].similarity)})
    IN  SubSeq(sorted, 1, ahead) \o <<x>> \o SubSeq(sorted, ahead + 1, Len(sorted))

\* list.sort(key=similarity, reverse=True): descending, and stable (entries
\* of equal key keep their order).  x goes behind the entries of 'sorted'
\* whose key is greater than or equal to its own.
InsertDescending(sorted, x) ==
    LET ahead == Cardinality({i \in 1..Len(sorted) :
                                ~RatLess(sorted[i].similarity, x.similarity)})
    IN  SubSeq(sorted, 1, ahead) \o <<x>> \o SubSeq(sorted, ahead + 1, Len(sorted))

RECURSIVE SortPrefix(_, _)
SortPrefix(results, n) ==
    IF n = 0 THEN <<>>
    ELSE InsertDescending(SortPrefix(results, n - 1), results[n])

\* variant: the list is left in the order of the loop
SortSkipped(results) == results

SortBySimilarity(results) == SortPrefix(results, Len(results))

\* variant: results[:21]
TopResultsOneMore(results) == SubSeq(results, 1, Min(Len(results), Limit + 1))

\* variant: results[-20:]
TopResultsTail(results) ==
    SubSeq(results, Len(results) - Min(Len(results), Limit) + 1, Len(results))

\* results[:20]
TopResults(results) == SubSeq(results, 1, Min(Len(results), Limit))

\* variant: a request without query text is answered like an empty search
NoQueryMessageAsNoMatch == "Found 0 relevant results."

NoQueryMessage == "Please enter a search query."
EmbeddingErrorMessage == "Error generating search embedding. Please try again."
FoundMessage(n) == "Found " \o ToString(n) \o " relevant results."
SearchErrorMessage(e) == "Error performing search: " \o e

Render(query, results, message) ==
    [kind |-> "render", query |-> query, results |-> results, message |-> message]

\* variant: the exception leaves the view
Reraise(query, e) ==
    [kind |-> "raise", query |-> query, results |-> <<>>, message |-> e]

\* except Exception as e: render the error
HandleSearchError(query, e) == Render(query, <<>>, SearchErrorMessage(e))

\* variant: the empty vector is not checked for
EmptyEmbeddingUnchecked(query_embedding) == FALSE

\* if not query_embedding
EmptyEmbedding(query_embedding) == query_embedding = <<>>

\* the body of semantic_search: the response, the call of the provider and
\* the posts scored on the way
SearchOutcome(q, out) ==
    LET query == strip(q)
        embedded == generate_embedding(out)
        query_embedding == embedded.value
        candidates == Candidates(posts)
        results == TopResults(SortBySimilarity(
                                  SimilarityScan(query_embedding, candidates)))
    IN  IF query = <<>>
        THEN [response |-> Render(<<>>, <<>>, NoQueryMessage),
              call |-> NotCalled, scored |-> <<>>]
        ELSE IF embedded.raised
        THEN [response |-> HandleSearchError(query, embedded.error),
              call |-> embedded.call, scored |-> <<>>]
        ELSE IF EmptyEmbedding(query_embedding)
        THEN [response |-> Render(query, <<>>, EmbeddingErrorMessage),
              call |-> embedded.call, scored |-> <<>>]
        ELSE [response |-> Render(query, results, FoundMessage(Len(results))),
              call |-> embedded.call,
              scored |-> [i \in 1..Len(candidates) |-> candidates[i].id]]

\* the calls of ai_utils a request with query text makes: the query is
\* embedded, and then the posts that are scored are scored, in order
EmbeddingCall == [fn |-> "generate_embedding", post |-> 0]
ScoreCall(id) == [fn |-> "cosine_similarity", post |-> id]

\* variant: the query is embedded anew for every post that is scored
CallsOfSearchPerPost(query, ids) ==
    IF query = <<>> THEN <<>>
    ELSE [i \in 1..(2 * Len(ids)) |->
             IF i % 2 = 1 THEN EmbeddingCall ELSE ScoreCall(ids[i \div 2])]

CallsOfSearch(query, ids) ==
    IF query = <<>> THEN <<>>
    ELSE <<EmbeddingCall>> \o [i \in 1..Len(ids) |-> ScoreCall(ids[i])]

\* variant: a search stores the query vector in the posts that have none
semantic_search_backfilling(q, out) ==
    LET outcome == SearchOutcome(q, out)
        backfilled(p) ==
            IF outcome.call.ok /\ (p.embedding.null \/ p.embedding.vec = <<>>)
            THEN [p EXCEPT !.embedding = Vec(outcome.call.vec)] ELSE p
    IN  /\ request' = q
        /\ provider' = outcome.call
        /\ response' = outcome.response
        /\ scored' = outcome.scored
        /\ trace' = CallsOfSearch(strip(q), outcome.scored)
        /\ edit' = NoEdit
        /\ posts' = [i \in 1..Len(posts) |-> backfilled(posts[i])]
        /\ UNCHANGED <<client, accountVars, toggling, next_id, relatedVars, pureVars, saving>>

semantic_search(q, out) ==
    LET outcome == SearchOutcome(q, out)
    IN  /\ request' = q
        /\ provider' = outcome.call
        /\ response' = outcome.response
        /\ scored' = outcome.scored
        /\ trace' = CallsOfSearch(strip(q), outcome.scored)
        /\ edit' = NoEdit
        /\ UNCHANGED <<client, accountVars, toggling, storedVars, pureVars, saving>>

(***************************************************************************)
(* The Post table: blog/views.py post_create, blog/admin.py save_model     *)
(***************************************************************************)
\* django.utils.text.slugify on lists of characters: lower case, the
\* characters that are no word character, space or hyphen removed, every run
\* of spaces and hyphens made one hyphen, hyphens and underscores stripped
\* from both ends
Lower(c) == IF c = "A" THEN "a" ELSE IF c = "B" THEN "b" ELSE c
WordChars == {"a", "b", "_"} \cup {DigitChars[i] : i \in 1..10}
Separators == {" ", "-"}

RECURSIVE Hyphenate(_)
Hyphenate(s) ==
    IF s = <<>> THEN <<>>
    ELSE IF Head(s) \in Separators
         THEN IF Len(s) > 1 /\ s[2] \in Separators THEN Hyphenate(Tail(s))
              ELSE <<"-">> \o Hyphenate(Tail(s))
         ELSE <<Head(s)>> \o Hyphenate(Tail(s))

RECURSIVE LStripChars(_, _)
LStripChars(s, chars) ==
    IF s # <<>> /\ Head(s) \in chars THEN LStripChars(Tail(s), chars) ELSE s

StripChars(s, chars) == Reverse(LStripChars(Reverse(LStripChars(s, chars)), chars))

slugify(value) ==
    LET lowered == [i \in 1..Len(value) |-> Lower(value[i])]
        kept == SelectSeq(lowered, LAMBDA c : c \in WordChars \cup Separators)
    IN  StripChars(Hyphenate(kept), {"-", "_"})

\* Post.save, lines 119-130: the slug the row is saved with.  pk is 0 for a
\* post that has no row yet.
SlugExists(ps, pk, slug) == \E i \in 1..Len(ps) : ps[i].slug = slug /\ ps[i].id # pk

Numbered(original_slug, counter) == original_slug \o <<"-">> \o Digits(counter)

RECURSIVE UniqueSlug(_, _, _, _, _)
UniqueSlug(ps, pk, original_slug, slug, counter) ==
    IF SlugExists(ps, pk, slug)
    THEN UniqueSlug(ps, pk, original_slug, Numbered(original_slug, counter), counter + 1)
    ELSE slug

SavedSlug(ps, pk, slug, title) ==
    LET wanted == IF slug = <<>> THEN slugify(title) ELSE slug
    IN  UniqueSlug(ps, pk, wanted, wanted, 1)

\* the users; is_superuser
Users == {"alice", "bob", "root"}
is_superuser(user) == user = "root"

\* gallery_files saved as PostImage rows: display_order counts on from the
\* number of images the post has
AddImages(images, gallery_files) ==
    images \o [i \in 1..gallery_files |-> Len(images) + i - 1]

NewPost(author, title, slug, status, embedding, manual_tags, gallery_files) ==
    [id |-> next_id, author |-> author,
     slug |-> SavedSlug(posts, 0, slug, title),
     status |-> status, embedding |-> embedding,
     tags |-> manual_tags, images |-> AddImages(<<>>, gallery_files)]

\* at most MaxCreated posts are created on top of the initial table
CanCreate ==
    \/ next_id <= MaxCreated
    \/ /\ next_id > Len(InitialPosts)
       /\ next_id <= Len(InitialPosts) + MaxCreated

\* the answer to a request that is not a search
Redirect(message) ==
    [kind |-> "redirect", query |-> <<>>, results |-> <<>>, message |-> message]

\* a request that is no search leaves nothing of a search behind
RespondTo(e, resp) ==
    /\ request' = <<>>
    /\ provider' = NotCalled
    /\ response' = resp
    /\ scored' = <<>>
    /\ trace' = <<>>
    /\ edit' = e

RespondWith(resp) == RespondTo(NoEdit, resp)

\* post_create, a valid POST: status outside STATUS_CHOICES becomes
\* 'published'; embedding is default=list unless auto_embedding is ticked
post_create(user, title, slug_input, status_input, manual_tags, gallery_files, auto_embedding, out) ==
    LET status == IF status_input \in STATUS_CHOICES THEN status_input
                  ELSE "published"
        embedded == generate_embedding(out)
        embedding == IF auto_embedding /\ ~embedded.raised
                     THEN Vec(embedded.value) ELSE Vec(<<>>)
    IN  /\ CanCreate
        /\ posts' = Append(posts, NewPost(user, title, strip(slug_input), status,
                                          embedding, manual_tags, gallery_files))
        /\ next_id' = next_id + 1
        /\ RespondWith(Redirect("Post created successfully!"))
        /\ UNCHANGED <<client, accountVars, toggling, relatedVars, pureVars, saving>>

\* PostAdmin.save_model of a new post: the form's embedding is saved, and an
\* empty one is replaced by a generated one when the provider returns one
\* (the drafts of the exploration come from post_create)
save_model(author, title, status, form_embedding, out) ==
    LET embedded == generate_embedding(out)
        missing == form_embedding.null \/ Len(form_embedding.vec) = 0
        embedding == IF missing /\ ~embedded.raised /\ embedded.value # <<>>
                     THEN Vec(embedded.value) ELSE form_embedding
    IN  /\ CanCreate
        /\ posts' = Append(posts, NewPost(author, title, <<>>, status,
                                          embedding, {}, 0))
        /\ next_id' = next_id + 1
        /\ RespondWith(Redirect(""))
        /\ UNCHANGED <<client, accountVars, toggling, relatedVars, pureVars, saving>>

FormEmbeddings == {Null, Vec(<<>>)} \cup {Vec(v) : v \in Vectors}

NoResponse == [kind |-> "none", query |-> <<>>, results |-> <<>>, message |-> ""]

\* Post.save of a request: where it is (idle, loop, write, done, raised),
\* the primary key of the instance (0 before its row is inserted), and the
\* locals original_slug, self.slug and counter
Save(pc, pk, original_slug, slug, counter) ==
    [pc |-> pc, pk |-> pk, original_slug |-> original_slug, slug |-> slug,
     counter |-> counter]
Idle == Save("idle", 0, <<>>, <<>>, 0)
SaveRequests == 1..MaxSaves
NoSaves == [r \in SaveRequests |-> Idle]

\* no user has signed up
NoAccounts ==
    /\ users = <<>>
    /\ profiles = <<>>

\* toggle_like of a request: where it is (idle, get, create, retry, found,
\* created, respond, raised), its user, the primary key of its post, the
\* primary key of the local like (0 before it has one) and the local liked
Toggle(pc, user, post, like, liked) ==
    [pc |-> pc, user |-> user, post |-> post, like |-> like, liked |-> liked]
NotToggling == Toggle("idle", "", 0, 0, FALSE)
ToggleRequests == 1..MaxToggles
NoToggles == [r \in ToggleRequests |-> NotToggling]

\* no function of ai_utils is called on its own
NoCall == [fn |-> "", args |-> <<>>]
NotReturned == [done |-> FALSE, value |-> <<>>]

\* no request is being answered
NoRequest ==
    /\ request = <<>>
    /\ provider = NotCalled
    /\ response = NoResponse
    /\ scored = <<>>
    /\ trace = <<>>
    /\ edit = NoEdit

\* a table of posts that nobody has liked or commented
Unrelated(ps) ==
    /\ posts = ps
    /\ next_id = Len(ps) + 1
    /\ likes = <<>>
    /\ bookmarks = <<>>
    /\ comments = <<>>
    /\ notifications = <<>>

Init ==
    /\ client \in BOOLEAN
    /\ \E ps \in {<<>>, InitialPosts} : Unrelated(ps)
    /\ NoRequest
    /\ call = NoCall
    /\ returned = NotReturned
    /\ saving = NoSaves
    /\ NoAccounts
    /\ toggling = NoToggles

Next ==
    \/ \E q \in QueryTexts, out \in ProviderOutcomes : semantic_search(q, out)
    \/ \E s \in STATUS_CHOICES \cup {"archived"}, a \in BOOLEAN,
          out \in ProviderOutcomes :
            post_create("alice", <<"A">>, <<>>, s, {}, 0, a, out)
    \/ \E e \in FormEmbeddings, out \in ProviderOutcomes :
          save_model("alice", <<"A">>, "published", e, out)

Spec == Init /\ [][Next]_vars

(***************************************************************************)
(* Requests on one post: blog/views.py post_update, post_delete,           *)
(* toggle_like and add_comment.  The post is the row the slug of the URL   *)
(* names; i is its place in the table.                                      *)
(***************************************************************************)
\* a page that is rendered: the form of post_update, the confirmation of
\* post_delete
Page(template) ==
    [kind |-> "page", query |-> <<>>, results |-> <<>>, message |-> template]

NoEditPermission == "You do not have permission to edit this post."
NoDeletePermission == "You do not have permission to delete this post."

\* variant: every logged-in user is allowed
AllowedAnyUser(post, user) == TRUE

\* lines 598 and 735: the author and the superusers are allowed
Allowed(post, user) == ~(post.author # user /\ ~is_superuser(user))

\* the fields of the post that a POST of post_update assigns, lines 603-692
UpdatedPost(post, title, slug_input, status_input, manual_tags, delete_gallery, gallery_files, regenerate_embedding, out) ==
    LET slug == IF strip(slug_input) # <<>> THEN strip(slug_input) ELSE post.slug
        status == IF status_input \in STATUS_CHOICES THEN status_input
                  ELSE post.status
        embedded == generate_embedding(out)
        embedding == IF regenerate_embedding /\ ~embedded.raised
                     THEN Vec(embedded.value) ELSE post.embedding
        kept == IF delete_gallery THEN <<>> ELSE post.images
    IN  [id |-> post.id, author |-> post.author,
         slug |-> SavedSlug(posts, post.id, slug, title),
         status |-> status, embedding |-> embedding,
         tags |-> manual_tags, images |-> AddImages(kept, gallery_files)]

post_update(user, i, method, title, slug_input, status_input, manual_tags, delete_gallery, gallery_files, regenerate_embedding, out) ==
    LET post == posts[i]
        e == Edit("post_update", user, post.id, method)
    IN  /\ i \in 1..Len(posts)
        /\ IF ~Allowed(post, user)
           THEN /\ RespondTo(e, Redirect(NoEditPermission))
                /\ UNCHANGED posts
           ELSE IF method = "POST"
           THEN /\ posts' = [posts EXCEPT ![i] =
                               UpdatedPost(post, title, slug_input, status_input,
                                           manual_tags, delete_gallery, gallery_files,
                                           regenerate_embedding, out)]
                /\ RespondTo(e, Redirect("Post updated successfully!"))
           ELSE /\ RespondTo(e, Page("blog/post_form.html"))
                /\ UNCHANGED posts
        /\ UNCHANGED <<client, accountVars, toggling, next_id, relatedVars, pureVars, saving>>

\* post.delete(): the likes and the comments of the post go with it
\* (on_delete=CASCADE), its notifications stay without a post (SET_NULL)
WithoutPost(rows, id) == SelectSeq(rows, LAMBDA r : r.post # id)
PostSetNull(rows, id) ==
    [k \in 1..Len(rows) |-> IF rows[k].post = id THEN [rows[k] EXCEPT !.post = 0]
                            ELSE rows[k]]

post_delete(user, i, method) ==
    LET post == posts[i]
        e == Edit("post_delete", user, post.id, method)
    IN  /\ i \in 1..Len(posts)
        /\ IF ~Allowed(post, user)
           THEN /\ RespondTo(e, Redirect(NoDeletePermission))
                /\ UNCHANGED <<posts, relatedVars>>
           ELSE IF method = "POST"
           THEN /\ posts' = SelectSeq(posts, LAMBDA r : r.id # post.id)
                /\ likes' = WithoutPost(likes, post.id)
                /\ bookmarks' = WithoutPost(bookmarks, post.id)
                /\ comments' = WithoutPost(comments, post.id)
                /\ notifications' = PostSetNull(notifications, post.id)
                /\ RespondTo(e, Redirect("Post deleted successfully!"))
           ELSE /\ RespondTo(e, Page("blog/post_confirm_delete.html"))
                /\ UNCHANGED <<posts, relatedVars>>
        /\ UNCHANGED <<client, accountVars, toggling, next_id, pureVars, saving>>

\* the outcomes of the provider while posts are edited
EditOutcomes == {ProviderFails, [ok |-> TRUE, vec |-> <<1, 0, 0, 0>>]}

\* the forms posted to post_update: status, manual tags, gallery to delete,
\* gallery files, embedding to regenerate, and what the provider does then;
\* a form that uploads an image deletes the gallery, so that no gallery grows
UpdateForm(status, manual_tags, delete_gallery, gallery_files, regenerate, out) ==
    [status |-> status, manual_tags |-> manual_tags,
     delete_gallery |-> delete_gallery, gallery_files |-> gallery_files,
     regenerate_embedding |-> regenerate, out |-> out]
UpdateForms ==
    { UpdateForm("draft", {"t"}, FALSE, 0, FALSE, ProviderFails),
      UpdateForm("published", {}, TRUE, 0, TRUE, [ok |-> TRUE, vec |-> <<1, 0, 0, 0>>]),
      UpdateForm("archived", {"t"}, TRUE, 1, TRUE, ProviderFails),
      UpdateForm("published", {"t"}, TRUE, 1, FALSE, ProviderFails) }

\* a post of alice that bob has liked and commented, with the notifications
\* of both
LikedPost ==
    [id |-> 1, author |-> "alice", slug |-> <<"a">>, status |-> "published",
     embedding |-> Vec(<<1, 0, 0, 0>>), tags |-> {"t"}, images |-> <<0>>]

Liked ==
    /\ posts = <<LikedPost>>
    /\ next_id = 2
    /\ likes = <<[id |-> 1, post |-> 1, user |-> "bob"]>>
    /\ bookmarks = <<[id |-> 1, post |-> 1, user |-> "bob"]>>
    /\ comments = <<[post |-> 1, author |-> "bob"]>>
    /\ notifications =
          << [user |-> "alice", actor |-> "bob", post |-> 1, type |-> "like"],
             [user |-> "alice", actor |-> "bob", post |-> 1, type |-> "bookmark"],
             [user |-> "alice", actor |-> "bob", post |-> 1, type |-> "comment"] >>

InitEdit ==
    /\ client = TRUE
    /\ Unrelated(<<>>) \/ Liked
    /\ NoRequest
    /\ call = NoCall
    /\ returned = NotReturned
    /\ saving = NoSaves
    /\ NoAccounts
    /\ toggling = NoToggles

NextEdit ==
    \/ \E q \in QueryTexts, out \in EditOutcomes : semantic_search(q, out)
    \/ \E s \in STATUS_CHOICES, out \in EditOutcomes :
          post_create("bob", <<"A">>, <<>>, s, {"t"}, 1, TRUE, out)
    \/ \E user \in Users, i \in 1..Len(posts) :
          post_update(user, i, "GET", <<"A">>, <<>>, "", {}, FALSE, 0, FALSE,
                      ProviderFails)
    \/ \E user \in Users, i \in 1..Len(posts), form \in UpdateForms :
          post_update(user, i, "POST", <<"A">>, <<>>, form.status, form.manual_tags,
                      form.delete_gallery, form.gallery_files,
                      form.regenerate_embedding, form.out)
    \/ \E user \in Users, i \in 1..Len(posts), method \in {"GET", "POST"} :
          post_delete(user, i, method)

SpecEdit == InitEdit /\ [][NextEdit]_vars

(***************************************************************************)
(* blog/models.py Post.save, statement by statement, for requests that run *)
(* at the same time.  Each query of the loop reads the table as it is at   *)
(* that moment; the row is written by super().save(), and the database     *)
(* refuses a row whose slug another row has (unique=True).                  *)
(***************************************************************************)
\* lines 122-127 for a post that is created: Post(slug=slug if slug else None)
BeginCreate(r, title, slug_input) ==
    LET slug == IF strip(slug_input) # <<>> THEN strip(slug_input) ELSE slugify(title)
    IN  /\ saving[r].pc = "idle"
        /\ saving' = [saving EXCEPT ![r] = Save("loop", 0, slug, slug, 1)]
        /\ UNCHANGED <<client, accountVars, toggling, storedVars, requestVars, pureVars>>

\* lines 122-127 for the post of post_update, read when the request began
BeginUpdate(r, i, title, slug_input) ==
    LET post == posts[i]
        assigned == IF strip(slug_input) # <<>> THEN strip(slug_input) ELSE post.slug
        slug == IF assigned # <<>> THEN assigned ELSE slugify(title)
    IN  /\ saving[r].pc = "idle"
        /\ i \in 1..Len(posts)
        /\ saving' = [saving EXCEPT ![r] = Save("loop", post.id, slug, slug, 1)]
        /\ UNCHANGED <<client, accountVars, toggling, storedVars, requestVars, pureVars>>

\* one test of the while condition, line 128, and the body, lines 129-130
CheckSlug(r) ==
    LET save == saving[r]
    IN  /\ save.pc = "loop"
        /\ saving' = [saving EXCEPT ![r] =
                        IF SlugExists(posts, save.pk, save.slug)
                        THEN Save("loop", save.pk, save.original_slug,
                                  Numbered(save.original_slug, save.counter),
                                  save.counter + 1)
                        ELSE Save("write", save.pk, save.original_slug, save.slug,
                                  save.counter)]
        /\ UNCHANGED <<client, accountVars, toggling, storedVars, requestVars, pureVars>>

\* super().save(), line 132: INSERT of a new row or UPDATE of the row of pk;
\* IntegrityError when another row has the slug
WriteRow(r) ==
    LET save == saving[r]
        row == [id |-> next_id, author |-> "alice", slug |-> save.slug,
                status |-> "published", embedding |-> Vec(<<>>),
                tags |-> {}, images |-> <<>>]
    IN  /\ save.pc = "write"
        /\ IF SlugExists(posts, save.pk, save.slug)
           THEN /\ saving' = [saving EXCEPT ![r].pc = "raised"]
                /\ UNCHANGED <<posts, next_id>>
           ELSE IF save.pk = 0
           THEN /\ posts' = Append(posts, row)
                /\ next_id' = next_id + 1
                /\ saving' = [saving EXCEPT ![r].pc = "done", ![r].pk = next_id]
           ELSE /\ posts' = [i \in 1..Len(posts) |->
                               IF posts[i].id = save.pk
                               THEN [posts[i] EXCEPT !.slug = save.slug]
                               ELSE posts[i]]
                /\ saving' = [saving EXCEPT ![r].pc = "done"]
                /\ UNCHANGED next_id
        /\ UNCHANGED <<client, accountVars, toggling, relatedVars, requestVars, pureVars>>

\* the titles and the slugs of the forms
SlugTitles == { <<"A">>, <<"A", " ", "-", "B", "!">> }
SlugInputs == { <<>>, <<"a">>, <<" ", "a", "-", "b">> }

InitSlug ==
    /\ client = TRUE
    /\ Unrelated(<<>>) \/ Unrelated(<<LikedPost>>)
    /\ NoRequest
    /\ call = NoCall
    /\ returned = NotReturned
    /\ saving = NoSaves
    /\ NoAccounts
    /\ toggling = NoToggles

NextSlug ==
    \/ \E r \in SaveRequests, title \in SlugTitles, slug_input \in SlugInputs :
          BeginCreate(r, title, slug_input)
    \/ \E r \in SaveRequests, i \in 1..Len(posts), title \in SlugTitles,
          slug_input \in SlugInputs : BeginUpdate(r, i, title, slug_input)
    \/ \E r \in SaveRequests : CheckSlug(r)
    \/ \E r \in SaveRequests : WriteRow(r)

SpecSlug == InitSlug /\ [][NextSlug]_vars

(***************************************************************************)
(* cosine_similarity called on its own.                                    *)
(***************************************************************************)
\* the vectors of the calls: those of the search, and the empty vector,
\* zero vectors, a negative one and multiples
CosineInputs ==
    Vectors \cup { <<>>, <<0, 0>>, <<-1, 0, 0, 0>>, <<2, 0, 0, 0>>, <<0, 3, 4, 0>> }

CallCosine(vec1, vec2) ==
    /\ call' = [fn |-> "cosine_similarity", args |-> <<vec1, vec2>>]
    /\ returned' = [done |-> TRUE, value |-> cosine_similarity(vec1, vec2)]
    /\ UNCHANGED <<client, accountVars, toggling, storedVars, requestVars, saving>>

InitCosine ==
    /\ client = TRUE
    /\ Unrelated(<<>>)
    /\ NoRequest
    /\ call = NoCall
    /\ returned = NotReturned
    /\ saving = NoSaves
    /\ NoAccounts
    /\ toggling = NoToggles

NextCosine == \E vec1 \in CosineInputs, vec2 \in CosineInputs : CallCosine(vec1, vec2)

SpecCosine == InitCosine /\ [][NextCosine]_vars

(***************************************************************************)
(* Properties of the search.                                               *)
(***************************************************************************)
\* the request was a search that reached the ranking
Ranked == response.kind = "render" /\ provider.called /\ provider.ok

PostSet == {posts[i] : i \in 1..Len(posts)}
ResultIds == {response.results[i].post : i \in 1..Len(response.results)}
ScoredIds == {scored[i] : i \in 1..Len(scored)}
MissingVector(p) == p.embedding.null \/ p.embedding.vec = <<>>

\* the posts the content store supplies, and their similarity to the query
Eligible == {p \in PostSet : p.status = "published" /\ ~MissingVector(p)}
Similarity(p) == cosine_similarity(provider.vec, p.embedding.vec)
Passing == {p \in Eligible : RatLess(Threshold, Similarity(p))}

\* the store supplies the post with id a before the post with id b: the
\* queryset is ordered by '-created_at'
Position(id) == CHOOSE i \in 1..Len(posts) : posts[i].id = id
SuppliedBefore(a, b) == Position(a) > Position(b)

\* C1: the result of a search has at most Limit entries, and the similarity
\* of every entry is not below the threshold.
C1_LimitAndThreshold ==
    response.kind = "render" =>
        /\ Len(response.results) <= Limit
        /\ \A i \in 1..Len(response.results) :
              RatLeq(Threshold, response.results[i].similarity)

\* more candidates pass the threshold than the result holds
C1_Witness ==
    /\ Ranked
    /\ Cardinality(Passing) > Limit
    /\ Len(response.results) = Limit

\* C2 as claimed: a candidate whose similarity equals the threshold is kept
\* (the result is not full, so the limit does not cut it).
C2_ThresholdInclusive ==
    (Ranked /\ Len(response.results) < Limit) =>
        \A p \in Eligible :
            Similarity(p) = Threshold => p.id \in ResultIds

\* C2 amended: the threshold is exclusive.  A candidate whose similarity is
\* less than or equal to the threshold is discarded, and a candidate whose
\* similarity is strictly greater is kept unless the limit cuts it.
C2_ThresholdExclusive ==
    Ranked =>
        \A p \in Eligible :
            /\ RatLeq(Similarity(p), Threshold) => p.id \notin ResultIds
            /\ (RatLess(Threshold, Similarity(p)) /\ Cardinality(Passing) <= Limit)
                  => p.id \in ResultIds

\* a scored candidate sits exactly on the threshold, next to one that is kept
C2_Witness ==
    /\ Ranked
    /\ \E p \in Eligible :
          /\ Similarity(p) = Threshold
          /\ p.id \in ScoredIds
          /\ p.id \notin ResultIds
    /\ response.results # <<>>

\* C3: when more candidates pass the threshold than the limit allows, the
\* result has exactly Limit entries, each a passing candidate with its own
\* score, and no candidate left out scores strictly higher than an entry.
C3_HighestKept ==
    (Ranked /\ Cardinality(Passing) > Limit) =>
        /\ Len(response.results) = Limit
        /\ \A i \in 1..Len(response.results) :
              \E p \in Passing :
                  /\ p.id = response.results[i].post
                  /\ Similarity(p) = response.results[i].similarity
        /\ \A p \in Passing :
              p.id \notin ResultIds =>
                  \A i \in 1..Len(response.results) :
                      ~RatLess(response.results[i].similarity, Similarity(p))

\* the limit cuts a candidate, and the entries kept differ in score
C3_Witness ==
    /\ Ranked
    /\ Cardinality(Passing) > Limit
    /\ \E p \in Passing : p.id \notin ResultIds
    /\ \E i, j \in 1..Len(response.results) :
          RatLess(response.results[j].similarity, response.results[i].similarity)

\* C4: the result is ordered by similarity, non-increasing.
C4_SortedDescending ==
    response.kind = "render" =>
        \A i \in 1..(Len(response.results) - 1) :
            RatLeq(response.results[i + 1].similarity,
                   response.results[i].similarity)

\* the sort moved an entry: a post supplied later stands ahead of one
\* supplied earlier, with a higher score
C4_Witness ==
    /\ Ranked
    /\ \E i, j \in 1..Len(response.results) :
          /\ i < j
          /\ SuppliedBefore(response.results[j].post, response.results[i].post)
          /\ RatLess(response.results[j].similarity,
                     response.results[i].similarity)

\* C5: entries of equal similarity stand in the order in which the store
\* supplied their candidates; and where the limit cuts among candidates of
\* equal similarity, it cuts the ones supplied last.
C5_StableTies ==
    Ranked =>
        /\ \A i, j \in 1..Len(response.results) :
              (i < j /\ response.results[i].similarity
                          = response.results[j].similarity)
                  => SuppliedBefore(response.results[i].post,
                                    response.results[j].post)
        /\ \A p \in Passing :
              p.id \notin ResultIds =>
                  \A i \in 1..Len(response.results) :
                      response.results[i].similarity = Similarity(p)
                          => SuppliedBefore(response.results[i].post, p.id)

\* a tie between posts of different vectors in the result, and a tie that
\* the limit cuts through
C5_Witness ==
    /\ Ranked
    /\ \E i, j \in 1..Len(response.results) :
          /\ i < j
          /\ response.results[i].similarity = response.results[j].similarity
          /\ posts[Position(response.results[i].post)].embedding
                # posts[Position(response.results[j].post)].embedding
    /\ \E p \in Passing :
          /\ p.id \notin ResultIds
          /\ Similarity(p) = response.results[Len(response.results)].similarity

\* C6: a post whose stored vector is missing (null) or empty is never in the
\* result of a search and is never handed to cosine_similarity.
C6_MissingVectorSkipped ==
    response.kind = "render" =>
        \A p \in PostSet :
            MissingVector(p) => (p.id \notin ResultIds /\ p.id \notin ScoredIds)

\* a ranking over a table that holds a published post without a vector and
\* one with an empty vector, besides posts that are scored
C6_Witness ==
    /\ Ranked
    /\ scored # <<>>
    /\ \E p \in PostSet : p.status = "published" /\ p.embedding.null
    /\ \E p \in PostSet : p.status = "published" /\ p.embedding = Vec(<<>>)

\* C7: when the embedding call of a search returns the empty vector, no
\* candidate is scored and the search returns normally, with an empty result
\* and the message of the missing query vector.
C7_EmptyQueryVector ==
    (provider.called /\ ~provider.ok) =>
        /\ response.kind = "render"
        /\ response.results = <<>>
        /\ scored = <<>>
        /\ response.message = "Error generating search embedding. Please try again."

\* the provider failed on a search over a table that has candidates
C7_Witness ==
    /\ provider.called
    /\ ~provider.ok
    /\ response.kind = "render"
    /\ Eligible # {}

\* the way a search came to an empty result
EmptyCase(req, prov, resp) ==
    IF resp.kind # "render" \/ resp.results # <<>> THEN "none"
    ELSE IF strip(req) = <<>> THEN "no query text"
    ELSE IF ~client \/ ~prov.ok THEN "provider failure"
    ELSE "zero matches"

\* C8: a search without query text, a search whose embedding provider failed
\* and a search without a match above the threshold each return an empty
\* result, and the messages of two searches that are empty for different
\* reasons differ.
C8_EmptyCasesDistinct ==
    [][ LET a == EmptyCase(request, provider, response)
            b == EmptyCase(request', provider', response')
        IN  /\ (a # "none" /\ b # "none" /\ a # b)
                  => response.message # response'.message
            /\ b = "provider failure"
                  => response'.message \notin {"Please enter a search query.",
                                                "Found 0 relevant results."}
            /\ b \in {"no query text", "zero matches"}
                  => response'.message
                        # "Error performing search: " \o NotConfigured ]_vars

\* a search that scored candidates and kept none
C8_Witness ==
    /\ EmptyCase(request, provider, response) = "zero matches"
    /\ scored # <<>>

\* C9: a search whose embedding provider fails (no client configured, or the
\* call of the provider raising) ends in a rendered response with an empty
\* result and an error message; the failure does not leave the view.
C9_ProviderFailureRendered ==
    (strip(request) # <<>> /\ (~client \/ (provider.called /\ ~provider.ok))) =>
        /\ response.kind = "render"
        /\ response.results = <<>>
        /\ response.message \in
              {"Error generating search embedding. Please try again.",
               "Error performing search: " \o NotConfigured}

\* a search without a configured client, over a table that has candidates
C9_Witness ==
    /\ ~client
    /\ strip(request) # <<>>
    /\ response.kind = "render"
    /\ Eligible # {}

\* the candidates whose vector has another dimension than the query vector
Malformed == {p \in Eligible : Len(p.embedding.vec) # Len(provider.vec)}

\* C10: a candidate whose vector has another dimension than the query vector
\* is not in the result, every other candidate is still scored, and the
\* result is the one the search gives without the malformed candidates.
C10_MalformedExcluded ==
    Ranked =>
        /\ \A p \in Malformed : p.id \notin ResultIds
        /\ \A p \in Eligible \ Malformed : p.id \in ScoredIds
        /\ response.results
              = TopResults(SortBySimilarity(SimilarityScan(provider.vec,
                    Candidates(SelectSeq(posts, LAMBDA p : p \notin Malformed)))))

\* the loop met a malformed candidate and went on to a candidate it kept
C10_Witness ==
    /\ Ranked
    /\ \E p \in Malformed :
          \E i \in 1..Len(response.results) :
              SuppliedBefore(p.id, response.results[i].post)

(***************************************************************************)
(* Properties of cosine_similarity.                                        *)
(***************************************************************************)
CosineReturned == call.fn = "cosine_similarity" /\ returned.done
IsZeroVector(v) == \A i \in 1..Len(v) : v[i] = 0

\* C11: cosine_similarity returns exactly 0.0 whenever one of its arguments
\* has norm 0 (all its components are 0), also when both have.
C11_ZeroNormGivesZero ==
    (CosineReturned /\ (IsZeroVector(call.args[1]) \/ IsZeroVector(call.args[2])))
        => returned.value = Zero

\* both arguments are zero vectors of the same, positive dimension
C11_Witness ==
    /\ CosineReturned
    /\ IsZeroVector(call.args[1])
    /\ IsZeroVector(call.args[2])
    /\ Len(call.args[1]) = Len(call.args[2])
    /\ Len(call.args[1]) > 0

\* C15: cosine_similarity is symmetric: the call with the arguments of the
\* call before it exchanged returns what that call returned.
C15_Symmetric ==
    [][ (/\ CosineReturned
         /\ call'.args = <<call.args[2], call.args[1]>>)
            => returned'.value = returned.value ]_vars

\* a call on two different vectors of equal dimension that are not
\* orthogonal and differ in norm
C15_Witness ==
    /\ CosineReturned
    /\ Len(call.args[1]) = Len(call.args[2])
    /\ call.args[1] # call.args[2]
    /\ Dot(call.args[1], call.args[1]) # Dot(call.args[2], call.args[2])
    /\ returned.value # Zero

(***************************************************************************)
(* Properties of a search request: its calls, and a post that carries the  *)
(* vector of the query.                                                    *)
(***************************************************************************)
EmbeddingCalls == {i \in 1..Len(trace) : trace[i].fn = "generate_embedding"}
ScoreCalls == {i \in 1..Len(trace) : trace[i].fn = "cosine_similarity"}

\* C14: a search request with query text (the stripped 'q') calls
\* generate_embedding exactly once, before any post is scored, and a
\* request without query text does not call it.
C14_EmbeddedOnceBeforeScoring ==
    response.kind = "render" =>
        IF strip(request) = <<>>
        THEN EmbeddingCalls = {}
        ELSE /\ Cardinality(EmbeddingCalls) = 1
             /\ \A i \in EmbeddingCalls, j \in ScoreCalls : i < j

\* a request with query text that scored more than one post
C14_Witness ==
    /\ response.kind = "render"
    /\ strip(request) # <<>>
    /\ Cardinality(ScoreCalls) > 1
    /\ Len(scored) > 1

One == <<1, 1>>

\* the published posts whose stored vector is the query vector
CarriesQueryVector ==
    {p \in Eligible : p.embedding.vec = provider.vec /\ ~IsZeroVector(provider.vec)}

\* the result has an entry for the post, of similarity 1.0, and no entry of
\* greater similarity
AtTop(p) ==
    \E i \in 1..Len(response.results) :
        /\ response.results[i].post = p.id
        /\ response.results[i].similarity = One
        /\ \A j \in 1..Len(response.results) :
              ~RatLess(response.results[i].similarity, response.results[j].similarity)

SelfSimilarityIsOne ==
    \A a \in Vectors : ~IsZeroVector(a) => cosine_similarity(a, a) = One

\* C16 as stated: cosine_similarity(a, a) is 1.0 for every vector of
\* non-zero norm, and a published post whose vector equals the query vector
\* is in the result, at or tied for the top.
C16_AlwaysAtTop ==
    /\ SelfSimilarityIsOne
    /\ Ranked => \A p \in CarriesQueryVector : AtTop(p)

\* C16: cosine_similarity(a, a) is 1.0 for every vector of non-zero norm,
\* and a published post whose vector equals the query vector is in the
\* result, at or tied for the top, unless the result is full (Limit
\* entries) of entries that all have similarity 1.0.
C16_AtTopUnlessCutAmongEquals ==
    /\ SelfSimilarityIsOne
    /\ Ranked =>
          \A p \in CarriesQueryVector :
              \/ AtTop(p)
              \/ /\ Len(response.results) = Limit
                 /\ \A j \in 1..Len(response.results) :
                       response.results[j].similarity = One

\* the post that carries the query vector is first, ahead of entries of
\* smaller similarity
C16_Witness ==
    /\ Ranked
    /\ \E p \in CarriesQueryVector :
          /\ response.results # <<>>
          /\ response.results[1].post = p.id
          /\ \E j \in 1..Len(response.results) :
                RatLess(response.results[j].similarity, One)

(***************************************************************************)
(* Properties of the table under creations, updates and deletions.         *)
(***************************************************************************)
\* C12: whatever posts were created, updated, changed in status and
\* deleted before, every post in the result of a search is in the table,
\* published and with a non-empty vector; no draft is in the result.
C12_OnlyPublishedWithVector ==
    response.kind = "render" =>
        /\ \A k \in 1..Len(response.results) :
              \E p \in PostSet :
                  /\ p.id = response.results[k].post
                  /\ p.status = "published"
                  /\ ~MissingVector(p)
        /\ \A p \in PostSet : p.status = "draft" => p.id \notin ResultIds

\* a search that found a post, while a draft carries the query vector
C12_Witness ==
    /\ Ranked
    /\ ResultIds # {}
    /\ \E p \in PostSet :
          /\ p.status = "draft"
          /\ p.embedding = Vec(provider.vec)

\* C13: the step of a search leaves the client and every row of every
\* table as they were, and a search that follows a search with the same
\* query text and the same answer of the provider has the same response.
C13_SearchStoresNothing ==
    [][ response'.kind = "render" =>
            /\ storedVars' = storedVars
            /\ client' = client
            /\ (/\ response.kind = "render"
                /\ request' = request
                /\ provider' = provider) => response' = response ]_vars

\* a search that found a post, over a table with a post that has none, a
\* like, a comment and notifications
C13_Witness ==
    /\ Ranked
    /\ ResultIds # {}
    /\ \E p \in PostSet : MissingVector(p)
    /\ likes # <<>>
    /\ comments # <<>>
    /\ notifications # <<>>

Permitted(p, user) == p.author = user \/ is_superuser(user)

\* C18: a post_update or post_delete request on a post by a user who is
\* neither its author nor a superuser changes no row and redirects with
\* the permission error; a post leaves the table only by a POST of
\* post_delete from its author or a superuser, and a row changes only by a
\* POST of post_update from its author or a superuser.
C18_OnlyAuthorOrSuperuser ==
    [][ \A p \in PostSet :
          /\ (/\ edit'.view \in {"post_update", "post_delete"}
              /\ edit'.post = p.id
              /\ ~Permitted(p, edit'.user))
                => /\ storedVars' = storedVars
                   /\ response'.kind = "redirect"
                   /\ response'.message =
                         IF edit'.view = "post_update" THEN NoEditPermission
                         ELSE NoDeletePermission
          /\ (\A r \in PostSet' : r.id # p.id)
                => /\ edit' = Edit("post_delete", edit'.user, p.id, "POST")
                   /\ Permitted(p, edit'.user)
          /\ (\E r \in PostSet' : r.id = p.id /\ r # p)
                => /\ edit' = Edit("post_update", edit'.user, p.id, "POST")
                   /\ Permitted(p, edit'.user) ]_vars

\* bob was refused the deletion of a post of alice, which is still there
C18_Witness ==
    /\ edit.view = "post_delete"
    /\ edit.method = "POST"
    /\ edit.user = "bob"
    /\ response.message = NoDeletePermission
    /\ \E p \in PostSet : p.id = edit.post /\ p.author = "alice"

(***************************************************************************)
(* Properties of Post.save.                                                *)
(***************************************************************************)
UniqueSlugs(ps) ==
    \A i, j \in 1..Len(ps) : ps[i].slug = ps[j].slug => i = j

\* the slug the claim has a save store when the wanted one is taken:
\* wanted-n for the smallest n >= 1 that no other post uses
SmallestFree(ps, pk, wanted) ==
    LET n == CHOOSE n \in 1..(Len(ps) + 1) :
                  /\ ~SlugExists(ps, pk, Numbered(wanted, n))
                  /\ \A m \in 1..(n - 1) : SlugExists(ps, pk, Numbered(wanted, m))
    IN  Numbered(wanted, n)

\* C17: whatever saves run and however they interleave, no two stored
\* posts have the same slug, and a save that writes while another post has
\* its wanted slug stores wanted-n for the smallest n >= 1 that no other
\* post uses.
C17_UniqueWithSmallestSuffix ==
    [][ /\ UniqueSlugs(posts')
        /\ \A r \in SaveRequests :
              (/\ saving[r].pc = "write"
               /\ saving'[r].pc # "write"
               /\ SlugExists(posts, saving[r].pk, saving[r].original_slug))
                  => /\ saving'[r].pc = "done"
                     /\ saving'[r].slug =
                           SmallestFree(posts, saving[r].pk, saving[r].original_slug) ]_vars

(***************************************************************************)
(* blog/ai_utils.py generate_summary, called on its own.  Texts are         *)
(* sequences of characters; the reply of the chat model is any text up to  *)
(* MaxReplyLen characters, or the call raises.                             *)
(***************************************************************************)
MaxReplyLen == 6

Chars == {"a", " "}
Texts(n) == UNION { [1..k -> Chars] : k \in 0..n }

ReplyRaises == [ok |-> FALSE, text |-> <<>>]
Replies == {ReplyRaises} \cup { [ok |-> TRUE, text |-> t] : t \in Texts(MaxReplyLen) }

\* the values of the parameter max_length
SummaryLengths == {3, 5}

\* s.rsplit(sep, 1)[0]: s up to its last sep, or all of s when it has none
LastIndex(s, sep) ==
    LET at == { i \in 1..Len(s) : s[i] = sep }
    IN  IF at = {} THEN 0 ELSE CHOOSE i \in at : \A j \in at : j <= i

RsplitHead(s, sep) ==
    IF LastIndex(s, sep) = 0 THEN s ELSE SubSeq(s, 1, LastIndex(s, sep) - 1)

Ellipsis == <<".", ".", ".">>

\* generate_summary(content, max_length): content reaches the prompt only
generate_summary(content, max_length, reply) ==
    IF ~client THEN <<>>
    ELSE IF ~reply.ok THEN <<>>
    ELSE LET summary == strip(reply.text)
         IN  IF Len(summary) > max_length
             THEN RsplitHead(SubSeq(summary, 1, max_length), " ") \o Ellipsis
             ELSE summary

CallSummary(content, max_length, reply) ==
    /\ call' = [fn |-> "generate_summary", args |-> <<content, max_length, reply>>]
    /\ returned' = [done |-> TRUE, value |-> generate_summary(content, max_length, reply)]
    /\ UNCHANGED <<client, accountVars, toggling, storedVars, requestVars, saving>>

InitSummary ==
    /\ client \in BOOLEAN
    /\ Unrelated(<<>>)
    /\ NoRequest
    /\ call = NoCall
    /\ returned = NotReturned
    /\ saving = NoSaves
    /\ NoAccounts
    /\ toggling = NoToggles

NextSummary ==
    \E content \in Texts(1), max_length \in SummaryLengths, reply \in Replies :
        CallSummary(content, max_length, reply)

SpecSummary == InitSummary /\ [][NextSummary]_vars

SummaryReturned == call.fn = "generate_summary" /\ returned.done

\* C19: generate_summary(content, max_length) never returns a text longer
\* than max_length characters, the appended '...' of a truncated reply
\* included.
C19_AtMostMaxLength ==
    SummaryReturned => Len(returned.value) <= call.args[2]

(***************************************************************************)
(* blog/ai_utils.py generate_tags_and_category, called on its own.  The   *)
(* content counts by its length only.  The reply of the chat model is     *)
(* kept as what json.loads makes of it after the fences are removed and   *)
(* the text is repaired: the call raises, the text cannot be decoded, or  *)
(* it decodes to a JSON value of any type.                                 *)
(***************************************************************************)
MaxTagsReplied == 7

MaxContentLength == 3000
MinContentLength == 50
MaxTags == 5

ContentLengths == {0, MinContentLength - 1, MinContentLength, MaxContentLength + 1}

\* JSON values
JString(t) == [type |-> "string", text |-> t, items |-> <<>>]
JNumber == [type |-> "number", text |-> <<>>, items |-> <<>>]
JList(items) == [type |-> "list", text |-> <<>>, items |-> items]
Absent == [type |-> "absent", text |-> <<>>, items |-> <<>>]

TagNames == [i \in 1..MaxTagsReplied |-> "tag" \o ToString(i)]
CategoryValues == {Absent, JNumber, JString(<<>>), JString(<<" ", "a", " ">>)}
TagsValues ==
    {Absent, JNumber, JString(<<"a">>)}
        \cup { JList(SubSeq(TagNames, 1, n)) : n \in 0..MaxTagsReplied }

TagReplies ==
    { [kind |-> "raises", category |-> Absent, tags |-> Absent],
      [kind |-> "undecodable", category |-> Absent, tags |-> Absent],
      [kind |-> "list", category |-> Absent, tags |-> Absent] }
        \cup { [kind |-> "object", category |-> c, tags |-> t] :
                    c \in CategoryValues, t \in TagsValues }

TagsResult(category, tags, error) == [category |-> category, tags |-> tags, error |-> error]
NoTags == TagsResult(<<>>, JList(<<>>), FALSE)
DefaultTags == TagsResult(<<"G", "e", "n", "e", "r", "a", "l">>, JList(<<"blog", "article", "post", "content", "writing">>), FALSE)
TagsError == TagsResult(<<>>, JList(<<>>), TRUE)

\* result.get(key, default)
JGet(value, default) == IF value.type = "absent" THEN default ELSE value

\* variant: the tags of the reply are returned whole
AtMostFiveUnsliced(tags) == tags

\* tags[:5] if tags else []
AtMostFive(tags) == SubSeq(tags, 1, Min(MaxTags, Len(tags)))

\* lines 203-217: a reply that is no object has no get, a category that is
\* no string has no strip: both raise AttributeError
ParsedReply(reply) ==
    IF reply.kind # "object" THEN TagsError
    ELSE LET category == JGet(reply.category, JString(<<>>))
             replied == JGet(reply.tags, JList(<<>>))
             tags == IF replied.type # "list" THEN JList(<<>>) ELSE replied
         IN  IF category.type # "string" THEN TagsError
             ELSE TagsResult(strip(category.text), JList(AtMostFive(tags.items)), FALSE)

generate_tags_and_category(content, reply) ==
    IF ~client THEN NoTags
    ELSE LET truncated == Min(content, MaxContentLength)
         IN  IF truncated < MinContentLength THEN DefaultTags
             ELSE IF reply.kind \in {"raises", "undecodable"} THEN TagsError
             ELSE ParsedReply(reply)

CallTags(content, reply) ==
    /\ call' = [fn |-> "generate_tags_and_category", args |-> <<content, reply>>]
    /\ returned' = [done |-> TRUE, value |-> generate_tags_and_category(content, reply)]
    /\ UNCHANGED <<client, accountVars, toggling, storedVars, requestVars, saving>>

InitTags ==
    /\ client \in BOOLEAN
    /\ Unrelated(<<>>)
    /\ NoRequest
    /\ call = NoCall
    /\ returned = NotReturned
    /\ saving = NoSaves
    /\ NoAccounts
    /\ toggling = NoToggles

NextTags == \E content \in ContentLengths, reply \in TagReplies : CallTags(content, reply)

SpecTags == InitTags /\ [][NextTags]_vars

TagsReturned == call.fn = "generate_tags_and_category" /\ returned.done

\* C20: on every return path of generate_tags_and_category the returned
\* 'tags' is a list of at most 5 elements, whatever the model replied.
C20_AtMostFiveTags ==
    TagsReturned =>
        /\ returned.value.tags.type = "list"
        /\ Len(returned.value.tags.items) <= 5

\* the model replied an object with more than 5 tags, and 5 are returned
C20_Witness ==
    /\ TagsReturned
    /\ client
    /\ call.args[1] >= 50
    /\ call.args[2].kind = "object"
    /\ call.args[2].tags.type = "list"
    /\ Len(call.args[2].tags.items) > 5
    /\ Len(returned.value.tags.items) = 5

(***************************************************************************)
(* blog/ai_utils.py generate_seo_metadata, called on its own.  Title,      *)
(* content and the texts of the reply are lists of characters; the reply   *)
(* of the chat model is kept as what json.loads makes of it, as for        *)
(* generate_tags_and_category.                                             *)
(***************************************************************************)
\* characters a replied meta_description has beyond the 150 it may have
MaxMetaExcess == 2

MetaMaxLength == 150
MetaCut == 147
SeoContentMax == 2000
SeoContentMin == 50
SeoContentEnough == 20
SeoTitleMax == 60
SeoSlugMax == 50
SeoKeywordsMax == 6

Repeat(c, n) == [i \in 1..n |-> c]
\* s[:n]
Prefix(s, n) == SubSeq(s, 1, Min(n, Len(s)))

SeoTitles == { <<"A", " ", "b">>, Repeat("A", MetaCut + 1) }
SeoContents ==
    { Repeat("a", n) :
        n \in {0, SeoContentEnough, SeoContentEnough + 1, SeoContentMin - 1,
               SeoContentMin, SeoContentMax + 1} }

\* the meta descriptions of the reply: texts of the lengths around the cut,
\* bare and with white space around them
MetaLengths == {0, MetaCut, MetaMaxLength} \cup
               { MetaMaxLength + k : k \in 1..MaxMetaExcess }
MetaTexts ==
    { Repeat("a", n) : n \in MetaLengths }
        \cup { <<" ">> \o Repeat("a", n) \o <<" ">> : n \in MetaLengths }

SeoReplies ==
    { [kind |-> "raises", seo_title |-> Absent, meta_description |-> Absent,
       seo_keywords |-> Absent, slug_suggestion |-> Absent],
      [kind |-> "undecodable", seo_title |-> Absent, meta_description |-> Absent,
       seo_keywords |-> Absent, slug_suggestion |-> Absent],
      [kind |-> "list", seo_title |-> Absent, meta_description |-> Absent,
       seo_keywords |-> Absent, slug_suggestion |-> Absent] }
        \cup { [kind |-> "object", seo_title |-> t, meta_description |-> m,
                seo_keywords |-> k, slug_suggestion |-> g] :
                  t \in {Absent, JNumber, JString(<<>>)},
                  m \in {Absent, JNumber} \cup {JString(x) : x \in MetaTexts},
                  k \in {Absent, JNumber, JList(SubSeq(TagNames, 1, SeoKeywordsMax + 1))},
                  g \in {JNumber, JString(<<" ", "a">>)} }

SeoResult(seo_title, meta_description, seo_keywords, slug_suggestion, error) ==
    [seo_title |-> seo_title, meta_description |-> meta_description,
     seo_keywords |-> seo_keywords, slug_suggestion |-> slug_suggestion,
     error |-> error]

\* title.lower().replace(' ', '-')[:50]
SlugBase(title) ==
    Prefix([i \in 1..Len(title) |-> IF title[i] = " " THEN "-" ELSE Lower(title[i])],
           SeoSlugMax)

DefaultKeywords == <<"blog", "article", "post", "content", "writing", "read">>

\* lines 252-260: content too short for the model
ShortContentSeo(title, content) ==
    SeoResult(Prefix(title, SeoTitleMax),
              IF Len(content) > SeoContentEnough THEN Prefix(content, MetaCut)
              ELSE Prefix(title, MetaCut),
              DefaultKeywords, SlugBase(title), FALSE)

SeoError(title) == SeoResult(title, <<>>, <<>>, <<>>, TRUE)

\* variant: the dots are appended to the first 150 characters
MetaDescriptionCutAtMax(meta_desc) ==
    IF Len(meta_desc) > MetaMaxLength
    THEN Prefix(meta_desc, MetaMaxLength) \o Ellipsis ELSE meta_desc

\* lines 321-322
MetaDescription(meta_desc) ==
    IF Len(meta_desc) > MetaMaxLength
    THEN Prefix(meta_desc, MetaCut) \o Ellipsis ELSE meta_desc

\* lines 320-338: a reply that is no object has no get, a field that is no
\* string has no strip: both raise AttributeError
ParsedSeo(title, reply) ==
    IF reply.kind # "object" THEN SeoError(title)
    ELSE LET meta_desc == JGet(reply.meta_description, JString(<<>>))
             replied == JGet(reply.seo_keywords, JList(<<>>))
             seo_keywords == IF replied.type # "list" THEN <<>> ELSE replied.items
             slug_suggestion == JGet(reply.slug_suggestion, JString(<<>>))
             seo_title_result == JGet(reply.seo_title, JString(title))
         IN  IF \/ meta_desc.type # "string"
                \/ slug_suggestion.type # "string"
                \/ seo_title_result.type # "string"
             THEN SeoError(title)
             ELSE SeoResult(IF strip(seo_title_result.text) # <<>>
                            THEN strip(seo_title_result.text) ELSE title,
                            MetaDescription(strip(meta_desc.text)),
                            Prefix(seo_keywords, SeoKeywordsMax),
                            strip(slug_suggestion.text), FALSE)

generate_seo_metadata(title, content, reply) ==
    IF ~client THEN SeoResult(title, <<>>, <<>>, <<>>, FALSE)
    ELSE LET truncated == Prefix(content, SeoContentMax)
         IN  IF Len(truncated) < SeoContentMin THEN ShortContentSeo(title, truncated)
             ELSE IF reply.kind \in {"raises", "undecodable"} THEN SeoError(title)
             ELSE ParsedSeo(title, reply)

\* one call in each behaviour
CallSeo(title, content, reply) ==
    /\ call = NoCall
    /\ call' = [fn |-> "generate_seo_metadata", args |-> <<title, content, reply>>]
    /\ returned' = [done |-> TRUE, value |-> generate_seo_metadata(title, content, reply)]
    /\ UNCHANGED <<client, accountVars, toggling, storedVars, requestVars, saving>>

InitSeo ==
    /\ client \in BOOLEAN
    /\ Unrelated(<<>>)
    /\ NoRequest
    /\ call = NoCall
    /\ returned = NotReturned
    /\ saving = NoSaves
    /\ NoAccounts
    /\ toggling = NoToggles

NextSeo ==
    \E title \in SeoTitles, content \in SeoContents, reply \in SeoReplies :
        CallSeo(title, content, reply)

SpecSeo == InitSeo /\ [][NextSeo]_vars

SeoReturned == call.fn = "generate_seo_metadata" /\ returned.done

\* C21: on every return path of generate_seo_metadata the returned
\* meta_description has at most 150 characters, the maximum length of
\* Post.meta_description.
C21_MetaDescriptionFits ==
    SeoReturned => Len(returned.value.meta_description) <= 150

\* the reply held a meta_description of more than 150 characters, and one
\* of exactly 150 is returned, ending in the dots
C21_Witness ==
    /\ SeoReturned
    /\ client
    /\ call.args[3].kind = "object"
    /\ call.args[3].meta_description.type = "string"
    /\ Len(strip(call.args[3].meta_description.text)) > 150
    /\ ~returned.value.error
    /\ Len(returned.value.meta_description) = 150
    /\ SubSeq(returned.value.meta_description, 148, 150) = Ellipsis

(***************************************************************************)
(* blog/signals.py create_or_update_user_profile, the receiver of          *)
(* post_save of User, and blog/views.py profile_edit.  Names are lists of  *)
(* characters; a username is never empty.                                   *)
(***************************************************************************)
\* users that sign up
MaxUsers == 2

Usernames == { <<"a">>, <<"b">>, <<"r">> }
FirstNames == { <<>>, <<"A">> }
LastNames == { <<>>, <<"L">> }
\* the short names of the profile form
ShortNames == { <<>>, <<"n">> }

\* User.get_full_name(): first and last name with a space between, stripped
get_full_name(user) == strip(user.first_name \o <<" ">> \o user.last_name)

\* instance.get_full_name() or instance.username
NameOf(user) == IF get_full_name(user) # <<>> THEN get_full_name(user) ELSE user.username

ProfilesOf(ps, username) == SelectSeq(ps, LAMBDA p : p.user = username)

\* UserProfile.objects.get_or_create(user=instance): short_name is blank
\* in a profile that is created
GetOrCreateProfile(ps, username) ==
    IF ProfilesOf(ps, username) # <<>> THEN ps
    ELSE Append(ps, [user |-> username, short_name |-> <<>>])

\* variant: the short name follows the name of the user at every save
ProfilesAfterSaveRenaming(ps, user, created) ==
    IF created THEN Append(ps, [user |-> user.username, short_name |-> NameOf(user)])
    ELSE LET got == GetOrCreateProfile(ps, user.username)
         IN  [k \in 1..Len(got) |->
                 IF got[k].user = user.username
                 THEN [got[k] EXCEPT !.short_name = NameOf(user)] ELSE got[k]]

\* create_or_update_user_profile(sender, instance, created)
ProfilesAfterSave(ps, user, created) ==
    IF created THEN Append(ps, [user |-> user.username, short_name |-> NameOf(user)])
    ELSE LET got == GetOrCreateProfile(ps, user.username)
         IN  [k \in 1..Len(got) |->
                 IF got[k].user = user.username /\ got[k].short_name = <<>>
                 THEN [got[k] EXCEPT !.short_name = NameOf(user)] ELSE got[k]]

UserRow(username, first_name, last_name) ==
    [username |-> username, first_name |-> first_name, last_name |-> last_name]

Account(view, username) == Edit(view, username, 0, "POST")

\* a new user is saved (signup_view, form.save()); usernames are unique
UserCreated(username, first_name, last_name) ==
    LET user == UserRow(username, first_name, last_name)
    IN  /\ Len(users) < MaxUsers
        /\ \A k \in 1..Len(users) : users[k].username # username
        /\ users' = Append(users, user)
        /\ profiles' = ProfilesAfterSave(profiles, user, TRUE)
        /\ RespondTo(Account("user_created", username), NoResponse)
        /\ UNCHANGED <<client, toggling, storedVars, pureVars, saving>>

\* an existing user is saved, with the first name it has then
UserSaved(k, first_name) ==
    LET user == UserRow(users[k].username, first_name, users[k].last_name)
    IN  /\ k \in 1..Len(users)
        /\ users' = [users EXCEPT ![k] = user]
        /\ profiles' = ProfilesAfterSave(profiles, user, FALSE)
        /\ RespondTo(Account("user_saved", user.username), NoResponse)
        /\ UNCHANGED <<client, toggling, storedVars, pureVars, saving>>

\* profile_edit, a valid POST: info_form.save() saves the user, and then
\* profile_form.save() saves the profile read at line 263 with the short
\* name of the form
profile_edit(k, first_name, last_name, short_name) ==
    LET user == UserRow(users[k].username, first_name, last_name)
        saved == ProfilesAfterSave(GetOrCreateProfile(profiles, user.username),
                                   user, FALSE)
    IN  /\ k \in 1..Len(users)
        /\ users' = [users EXCEPT ![k] = user]
        /\ profiles' = [j \in 1..Len(saved) |->
                          IF saved[j].user = user.username
                          THEN [saved[j] EXCEPT !.short_name = short_name]
                          ELSE saved[j]]
        /\ RespondTo(Account("profile_edit", user.username),
                     Redirect("Profile updated successfully!"))
        /\ UNCHANGED <<client, toggling, storedVars, pureVars, saving>>

InitProfile ==
    /\ client = TRUE
    /\ Unrelated(<<>>)
    /\ NoRequest
    /\ call = NoCall
    /\ returned = NotReturned
    /\ saving = NoSaves
    /\ NoAccounts
    /\ toggling = NoToggles

NextProfile ==
    \/ \E username \in Usernames, first_name \in FirstNames, last_name \in LastNames :
          UserCreated(username, first_name, last_name)
    \/ \E k \in 1..Len(users), first_name \in FirstNames :
          UserSaved(k, first_name)
    \/ \E k \in 1..Len(users), short_name \in ShortNames :
          profile_edit(k, users[k].first_name, users[k].last_name, short_name)

SpecProfile == InitProfile /\ [][NextProfile]_vars

\* the short name of the profile of a user that has exactly one
ShortNameOf(ps, username) == ProfilesOf(ps, username)[1].short_name

\* C22: after any user creations and user saves each user has exactly one
\* profile, and the save of an existing user fills an empty short_name and
\* leaves a short_name that is not empty as it is.
C22_OneProfileShortNameKept ==
    [][ /\ \A k \in 1..Len(users') :
              Len(ProfilesOf(profiles', users'[k].username)) = 1
        /\ \A k \in 1..Len(users) :
              (edit'.view = "user_saved" /\ edit'.user = users[k].username)
                  => IF ShortNameOf(profiles, users[k].username) # <<>>
                     THEN ShortNameOf(profiles', users[k].username)
                              = ShortNameOf(profiles, users[k].username)
                     ELSE ShortNameOf(profiles', users[k].username) # <<>> ]_vars

\* a user whose short name is empty, and one whose short name is not that
\* of the names it has now, were saved
C22_Witness ==
    /\ Len(users) = 2
    /\ edit.view = "user_saved"
    /\ \E k \in 1..Len(users) :
          /\ edit.user = users[k].username
          /\ ShortNameOf(profiles, users[k].username) # NameOf(users[k])
    /\ \E k \in 1..Len(users) : ShortNameOf(profiles, users[k].username) = <<"n">>

(***************************************************************************)
(* blog/views.py toggle_like, toggle_bookmark, add_comment and             *)
(* create_notification.  A PostLike or Bookmark row is [id, post, user];   *)
(* unique_together makes the insert of a second row of a post and a user   *)
(* raise IntegrityError.                                                    *)
(***************************************************************************)
\* notifications stored before the requests stop
MaxNotifications == 1

RowsOf(rows, post, user) == SelectSeq(rows, LAMBDA l : l.post = post /\ l.user = user)
RowsOfPost(rows, post) == SelectSeq(rows, LAMBDA l : l.post = post)
WithoutRow(rows, id) == SelectSeq(rows, LAMBDA l : l.id # id)
PostById(id) == SelectSeq(posts, LAMBDA p : p.id = id)[1]

\* a primary key that no row has and no request holds
HeldKeys == {toggling[r].like : r \in ToggleRequests}
NewKey(rows) ==
    CHOOSE id \in 1..(Len(rows) + MaxToggles + 1) :
        /\ id \notin HeldKeys
        /\ \A k \in 1..Len(rows) : rows[k].id # id
        /\ \A smaller \in 1..(id - 1) :
              smaller \in HeldKeys \/ \E k \in 1..Len(rows) : rows[k].id = smaller

\* variant: the table has no unique_together
UniqueTogetherAbsent(rows, post, user) == FALSE

\* unique_together = ('post', 'user'): the insert raises IntegrityError
UniqueTogether(rows, post, user) == RowsOf(rows, post, user) # <<>>

\* variant: the actor is told of what it did itself
NotifiedOfOwn(rows, user, actor, post, notif_type) ==
    Append(rows, [user |-> user, actor |-> actor, post |-> post, type |-> notif_type])

\* create_notification(user, actor, post, notif_type, message): the
\* Notification table after the call
Notified(rows, user, actor, post, notif_type) ==
    IF user = actor THEN rows
    ELSE Append(rows, [user |-> user, actor |-> actor, post |-> post, type |-> notif_type])

\* variant: the count of the likes of every post
LikeCountOfTable(rows, post) == Len(rows)

\* Post.like_count
like_count(rows, post) == Len(RowsOfPost(rows, post))

\* JsonResponse({'liked': liked, 'likes': post.like_count})
JsonLiked(liked, count) ==
    [kind |-> "json", query |-> <<>>, results |-> <<>>, message |-> "",
     liked |-> liked, likes |-> count]

\* toggle_like answered with no other request of the user on the post
\* under way
toggle_like(user, i) ==
    LET post == posts[i]
        found == RowsOf(likes, post.id, user)
        created == found = <<>>
        stored == IF created
                  THEN Append(likes, [id |-> NewKey(likes), post |-> post.id, user |-> user])
                  ELSE WithoutRow(likes, found[1].id)
    IN  /\ i \in 1..Len(posts)
        /\ created /\ post.author # user => Len(notifications) < MaxNotifications
        /\ \A r \in ToggleRequests : toggling[r].user # user \/ toggling[r].post # post.id
        /\ likes' = stored
        /\ notifications' = IF created
                            THEN Notified(notifications, post.author, user, post.id, "like")
                            ELSE notifications
        /\ RespondTo(Edit("toggle_like", user, post.id, "POST"),
                     JsonLiked(created, like_count(stored, post.id)))
        /\ UNCHANGED <<client, accountVars, toggling, posts, next_id, bookmarks, comments, pureVars, saving>>

\* line 346: the post is read
LikeBegin(r, user, i) ==
    /\ toggling[r].pc = "idle"
    /\ i \in 1..Len(posts)
    /\ toggling' = [toggling EXCEPT ![r] = Toggle("get", user, posts[i].id, 0, FALSE)]
    /\ UNCHANGED <<client, accountVars, storedVars, requestVars, pureVars, saving>>

\* line 347, get_or_create: the SELECT
LikeGet(r) ==
    LET t == toggling[r]
        found == RowsOf(likes, t.post, t.user)
    IN  /\ t.pc = "get"
        /\ toggling' = [toggling EXCEPT ![r] =
              IF found = <<>> THEN [t EXCEPT !.pc = "create"]
              ELSE [t EXCEPT !.pc = "found", !.like = found[1].id]]
        /\ UNCHANGED <<client, accountVars, storedVars, requestVars, pureVars, saving>>

\* line 347, get_or_create: the INSERT, after a SELECT that found no row
LikeCreate(r) ==
    LET t == toggling[r]
        id == NewKey(likes)
    IN  /\ t.pc = "create"
        /\ IF UniqueTogether(likes, t.post, t.user)
           THEN /\ toggling' = [toggling EXCEPT ![r] = [t EXCEPT !.pc = "retry"]]
                /\ UNCHANGED likes
           ELSE /\ likes' = Append(likes, [id |-> id, post |-> t.post, user |-> t.user])
                /\ toggling' = [toggling EXCEPT ![r] =
                                   [t EXCEPT !.pc = "created", !.like = id]]
        /\ UNCHANGED <<client, accountVars, posts, next_id, bookmarks, comments, notifications, requestVars, pureVars, saving>>

\* line 347, get_or_create: the SELECT after IntegrityError; the error is
\* raised again when the row is gone
LikeRetry(r) ==
    LET t == toggling[r]
        found == RowsOf(likes, t.post, t.user)
    IN  /\ t.pc = "retry"
        /\ toggling' = [toggling EXCEPT ![r] =
              IF found = <<>> THEN [t EXCEPT !.pc = "raised"]
              ELSE [t EXCEPT !.pc = "found", !.like = found[1].id]]
        /\ UNCHANGED <<client, accountVars, storedVars, requestVars, pureVars, saving>>

\* lines 348-350: like.delete() deletes the row of that primary key
LikeDelete(r) ==
    LET t == toggling[r]
    IN  /\ t.pc = "found"
        /\ likes' = WithoutRow(likes, t.like)
        /\ toggling' = [toggling EXCEPT ![r] =
                           [t EXCEPT !.pc = "respond", !.like = 0, !.liked = FALSE]]
        /\ UNCHANGED <<client, accountVars, posts, next_id, bookmarks, comments, notifications, requestVars, pureVars, saving>>

\* lines 351-359
LikeNotify(r) ==
    LET t == toggling[r]
    IN  /\ t.pc = "created"
        /\ notifications' = Notified(notifications, PostById(t.post).author, t.user,
                                     t.post, "like")
        /\ toggling' = [toggling EXCEPT ![r] =
                           [t EXCEPT !.pc = "respond", !.like = 0, !.liked = TRUE]]
        /\ UNCHANGED <<client, accountVars, posts, next_id, likes, bookmarks, comments, requestVars, pureVars, saving>>

\* line 360
LikeRespond(r) ==
    LET t == toggling[r]
    IN  /\ t.pc = "respond"
        /\ RespondTo(Edit("toggle_like", t.user, t.post, "POST"),
                     JsonLiked(t.liked, like_count(likes, t.post)))
        /\ toggling' = [toggling EXCEPT ![r] = NotToggling]
        /\ UNCHANGED <<client, accountVars, storedVars, pureVars, saving>>

\* the IntegrityError leaves the view: the request is answered with 500
LikeRaised(r) ==
    LET t == toggling[r]
    IN  /\ t.pc = "raised"
        /\ RespondTo(Edit("toggle_like", t.user, t.post, "POST"),
                     [kind |-> "error", query |-> <<>>, results |-> <<>>,
                      message |-> "IntegrityError"])
        /\ toggling' = [toggling EXCEPT ![r] = NotToggling]
        /\ UNCHANGED <<client, accountVars, storedVars, pureVars, saving>>

\* the user whose requests on the last post follow one another, and the
\* user whose requests on the first post overlap
SequentialUsers == {"bob"}
OverlappingUsers == {"alice"}

\* two posts of alice
LikePosts ==
    << LikedPost,
       [id |-> 2, author |-> "alice", slug |-> <<"b">>, status |-> "published",
        embedding |-> Vec(<<>>), tags |-> {}, images |-> <<>>] >>

InitLike ==
    /\ client = TRUE
    /\ Unrelated(LikePosts)
    /\ NoRequest
    /\ call = NoCall
    /\ returned = NotReturned
    /\ saving = NoSaves
    /\ NoAccounts
    /\ toggling = NoToggles

NextLike ==
    \/ \E user \in SequentialUsers : toggle_like(user, Len(posts))
    \/ \E r \in ToggleRequests, user \in OverlappingUsers : LikeBegin(r, user, 1)
    \/ \E r \in ToggleRequests : LikeGet(r)
    \/ \E r \in ToggleRequests : LikeCreate(r)
    \/ \E r \in ToggleRequests : LikeRetry(r)
    \/ \E r \in ToggleRequests : LikeDelete(r)
    \/ \E r \in ToggleRequests : LikeNotify(r)
    \/ \E r \in ToggleRequests : LikeRespond(r)
    \/ \E r \in ToggleRequests : LikeRaised(r)

SpecLike == InitLike /\ [][NextLike]_vars

\* the user has a like on the post
HasLike(rows, post, user) == \E k \in 1..Len(rows) : rows[k].post = post /\ rows[k].user = user

\* the number of rows of the post
CountOfPost(rows, post) == Cardinality({k \in 1..Len(rows) : rows[k].post = post})

\* the step answers a toggle_like request of the user on the post: the
\* whole request in one step, or the last statement of a request under way
AnsweredAtOnce(user, post) ==
    /\ toggling' = toggling
    /\ likes' # likes
    /\ edit' = Edit("toggle_like", user, post, "POST")

AnsweredLast(user, post) ==
    \E r \in ToggleRequests :
        /\ toggling[r].pc = "respond"
        /\ toggling'[r] = NotToggling
        /\ toggling[r].user = user
        /\ toggling[r].post = post

\* C23: under any interleaving of toggle_like requests a post and a user
\* have at most one PostLike; a request of a user whose requests on the
\* post follow one another flips the like, a second one right after it
\* restores the like state, and 'likes' in every response is the number of
\* likes the post has when the response is made.
C23_OneLikeToggleFlips ==
    [][ \A p \in {1, 2}, user \in Users :
          /\ Len(RowsOf(likes, p, user)) <= 1
          /\ Len(RowsOf(likes', p, user)) <= 1
          /\ AnsweredAtOnce(user, p) =>
                /\ HasLike(likes', p, user) = ~HasLike(likes, p, user)
                /\ response'.liked = HasLike(likes', p, user)
                /\ response'.likes = CountOfPost(likes', p)
                /\ (edit = Edit("toggle_like", user, p, "POST") /\ response.kind = "json")
                      => HasLike(likes', p, user) = ~response.liked
          /\ AnsweredLast(user, p) =>
                /\ response'.kind = "json"
                /\ response'.likes = CountOfPost(likes', p) ]_vars

\* the second of two requests of bob that follow one another was answered
\* and removed his like, while a request of alice on the other post, which
\* she likes, met IntegrityError
C23_Witness ==
    /\ edit = Edit("toggle_like", "bob", 2, "POST")
    /\ response.kind = "json"
    /\ ~response.liked
    /\ response.likes = 0
    /\ HasLike(likes, 1, "alice")
    /\ \E r \in ToggleRequests : toggling[r].pc = "retry"

(***************************************************************************)
(* The notifications of toggle_like, toggle_bookmark and add_comment, each *)
(* request answered before the next one begins.                             *)
(***************************************************************************)
\* comments stored before the requests stop
MaxComments == 1

\* Post.bookmark_count
bookmark_count(rows, post) == Len(RowsOfPost(rows, post))

\* JsonResponse({'bookmarked': bookmarked, 'count': post.bookmark_count})
JsonBookmarked(bookmarked, count) ==
    [kind |-> "json", query |-> <<>>, results |-> <<>>, message |-> "",
     bookmarked |-> bookmarked, count |-> count]

toggle_bookmark(user, i) ==
    LET post == posts[i]
        found == RowsOf(bookmarks, post.id, user)
        created == found = <<>>
        stored == IF created
                  THEN Append(bookmarks, [id |-> NewKey(bookmarks), post |-> post.id, user |-> user])
                  ELSE WithoutRow(bookmarks, found[1].id)
    IN  /\ i \in 1..Len(posts)
        /\ created /\ post.author # user => Len(notifications) < MaxNotifications
        /\ bookmarks' = stored
        /\ notifications' = IF created
                            THEN Notified(notifications, post.author, user, post.id, "bookmark")
                            ELSE notifications
        /\ RespondTo(Edit("toggle_bookmark", user, post.id, "POST"),
                     JsonBookmarked(created, bookmark_count(stored, post.id)))
        /\ UNCHANGED <<client, accountVars, toggling, posts, next_id, likes, comments, pureVars, saving>>

\* JsonResponse of add_comment: success, and status 400 without it
JsonCommented(success) ==
    [kind |-> "json", query |-> <<>>, results |-> <<>>,
     message |-> IF success THEN "Comment added!" ELSE "", success |-> success]

\* add_comment; is_valid is form.is_valid()
add_comment(user, i, is_valid) ==
    LET post == posts[i]
        e == Edit("add_comment", user, post.id, "POST")
    IN  /\ i \in 1..Len(posts)
        /\ is_valid => Len(comments) < MaxComments
        /\ is_valid /\ post.author # user => Len(notifications) < MaxNotifications
        /\ IF is_valid
           THEN /\ comments' = Append(comments, [post |-> post.id, author |-> user])
                /\ notifications' = Notified(notifications, post.author, user, post.id,
                                             "comment")
                /\ RespondTo(e, JsonCommented(TRUE))
           ELSE /\ RespondTo(e, JsonCommented(FALSE))
                /\ UNCHANGED <<comments, notifications>>
        /\ UNCHANGED <<client, accountVars, toggling, posts, next_id, likes, bookmarks, pureVars, saving>>

\* a post of alice
NotifyPosts == <<LikedPost>>

NotifyUsers == {"alice", "bob"}

InitNotify ==
    /\ client = TRUE
    /\ Unrelated(NotifyPosts)
    /\ NoRequest
    /\ call = NoCall
    /\ returned = NotReturned
    /\ saving = NoSaves
    /\ NoAccounts
    /\ toggling = NoToggles

NextNotify ==
    \/ \E user \in NotifyUsers, i \in 1..Len(posts) : toggle_like(user, i)
    \/ \E user \in NotifyUsers, i \in 1..Len(posts) : toggle_bookmark(user, i)
    \/ \E user \in NotifyUsers, i \in 1..Len(posts), is_valid \in BOOLEAN :
          add_comment(user, i, is_valid)

SpecNotify == InitNotify /\ [][NextNotify]_vars

\* the step adds a row of the user and the post to the table
RowAdded(before, after, post, user) ==
    Len(RowsOf(after, post, user)) > Len(RowsOf(before, post, user))

RowRemoved(before, after, post, user) ==
    Len(RowsOf(after, post, user)) < Len(RowsOf(before, post, user))

CommentAdded(post, user) ==
    /\ Len(comments') = Len(comments) + 1
    /\ comments'[Len(comments')] = [post |-> post, author |-> user]

\* the step appends one notification of the type, for the author of the
\* post, about the user, and keeps all others
OneNotification(post, user, type) ==
    notifications' = Append(notifications,
        [user |-> PostById(post).author, actor |-> user, post |-> post, type |-> type])

\* C24: no stored notification has its recipient as its actor; a like, a
\* bookmark or a comment on one's own post adds no notification, that of
\* another user adds exactly one for the author of the post, and a like or
\* bookmark that is removed adds no notification and deletes none.
C24_NotifiesOthersOnly ==
    [][ /\ \A k \in 1..Len(notifications') :
              notifications'[k].user # notifications'[k].actor
        /\ \A p \in {posts[k].id : k \in 1..Len(posts)}, user \in NotifyUsers :
              /\ RowAdded(likes, likes', p, user) =>
                    IF PostById(p).author = user THEN notifications' = notifications
                    ELSE OneNotification(p, user, "like")
              /\ RowAdded(bookmarks, bookmarks', p, user) =>
                    IF PostById(p).author = user THEN notifications' = notifications
                    ELSE OneNotification(p, user, "bookmark")
              /\ CommentAdded(p, user) =>
                    IF PostById(p).author = user THEN notifications' = notifications
                    ELSE OneNotification(p, user, "comment")
              /\ RowRemoved(likes, likes', p, user) => notifications' = notifications
              /\ RowRemoved(bookmarks, bookmarks', p, user) =>
                    notifications' = notifications ]_vars

\* bob removed his bookmark of the post of alice, who was told of it when
\* he set it, and alice likes her own post
C24_Witness ==
    /\ edit = Edit("toggle_bookmark", "bob", 1, "POST")
    /\ ~response.bookmarked
    /\ \E k \in 1..Len(notifications) :
          notifications[k] = [user |-> "alice", actor |-> "bob", post |-> 1,
                              type |-> "bookmark"]
    /\ HasLike(likes, 1, "alice")

(***************************************************************************)
(* post_update with regenerate_embedding.                                  *)
(***************************************************************************)
\* the post of that primary key in a table that has it
RowById(ps, id) == SelectSeq(ps, LAMBDA p : p.id = id)[1]

\* C25: a POST of post_update leaves a post that had a vector with a
\* vector: with the one it had when the provider failed at the
\* regeneration that was asked for, so that a search still finds the post.
C25_FailedRegenerationKeepsEmbedding ==
    [][ \A k \in 1..Len(posts) :
          ( /\ edit' = Edit("post_update", edit'.user, posts[k].id, "POST")
            /\ HasEmbedding(posts[k])
            /\ \E j \in 1..Len(posts') : posts'[j].id = posts[k].id )
          => HasEmbedding(RowById(posts', posts[k].id)) ]_vars

====
